---- MODULE Spec2Model ----
(***************************************************************************)
(* Model of the two bulk-deletion scripts of kinde-bulk-user-delete:       *)
(*   deleteAllUsers.ts            (flow = "global")                        *)
(*   deleteOrgUsersIdentities.ts  (flow = "org")                           *)
(* One run of one script against a nondeterministic Kinde server.  Every   *)
(* step is the code between two awaits on the network: one invocation of   *)
(* requestWithRetry, or the caller's code that consumes its result.        *)
(***************************************************************************)
EXTENDS Integers, Sequences, FiniteSets, TLC

\* ------------------------------------------------------------- bounds
\* KINDE_MAX_RETRIES as configured for the checked runs (default "6")
MAX_RETRIES == 2
\* non-200 API responses and failed token exchanges the server may produce in a run
MaxFaults == 4
\* page responses the server serves in one run (all enumerations together)
MaxPages == 3
\* clock advances (of TickMs each) in one run
MaxTicks == 1
\* token-endpoint requests in one token-manager run
MaxTokenCalls == 3
\* page responses in one replayed feed
MaxFeed == 3
\* largest attempt index a backoff wait is computed for (5 with the default
\* KINDE_MAX_RETRIES of 6)
MaxWaitAttempt == 5

\* ------------------------------------------------------------- program constants
\* KINDE_BASE_DELAY_MS, default
BASE_DELAY_MS == 500
\* the cap of the exponential backoff, in milliseconds
MaxBackoffMs == 15000
\* Math.floor(Math.random() * 250) is below this
JitterRange == 250

\* ------------------------------------------------------------- values
Undefined == "<undefined>"

\* JavaScript truthiness of an optional string
Truthy(v) == v # Undefined /\ v # ""

Max(a, b) == IF a >= b THEN a ELSE b

Min(a, b) == IF a <= b THEN a ELSE b

Statuses == {200, 401, 404, 429, 500}

\* Response.ok
Ok(status) == status >= 200 /\ status <= 299

\* one clock advance: the 60 s safety skew of the token cache, in milliseconds
TickMs == 60 * 1000

TokenValues == {"t1", "t2"}

\* expires_in of a token response, in seconds; NoExpiresIn: the field is absent
NoExpiresIn == 0 - 1

ExpiresInValues == {NoExpiresIn, 0, 120}

Ids == {"", "a", "b"}

\* next_token values of a page response (Undefined: field absent)
NextTokens == {Undefined, "", "A", "B"}

\* ------------------------------------------------------------- configuration
\* String.prototype.toLowerCase on the values the model draws
ToLowerCase(s) == IF s = "TRUE" THEN "true" ELSE s

\* faulty variant of ConfirmFlag: any non-empty value of the variable confirms
ConfirmFlag_AnyValue(v) == Truthy(v)

\* (process.env.X ?? "").toLowerCase() === "true"
ConfirmFlag(v) == ToLowerCase(IF v = Undefined THEN "" ELSE v) = "true"

\* the environment variable each script reads for its confirmation guard
CONFIRM_DELETE_ALL(e) == ConfirmFlag(e.KINDE_CONFIRM_DELETE_ALL)

CONFIRM_DELETE(e) == ConfirmFlag(e.KINDE_CONFIRM_DELETE_ALL)

Confirmed(f, e) == IF f = "global" THEN CONFIRM_DELETE_ALL(e) ELSE CONFIRM_DELETE(e)

\* ------------------------------------------------------------- token manager
NullCache == [set |-> FALSE, token |-> Undefined, expiresAt |-> 0]

TokenResponses ==
    {[ok |-> TRUE, access_token |-> t, expires_in |-> e] :
        t \in TokenValues, e \in ExpiresInValues}
    \cup {[ok |-> TRUE, access_token |-> Undefined, expires_in |-> NoExpiresIn],
          [ok |-> FALSE, access_token |-> Undefined, expires_in |-> NoExpiresIn]}

\* a token response that is not a complete success
TokenFault(r) == ~r.ok \/ r.access_token = Undefined

\* json.expires_in ?? 3600
ExpiresIn(r) == IF r.expires_in = NoExpiresIn THEN 3600 ELSE r.expires_in

\* the cache entry each script stores after a successful exchange
NewCache(f, t, r) ==
    [set |-> TRUE,
     token |-> r.access_token,
     expiresAt |-> IF f = "global"
                   THEN t + (ExpiresIn(r) - 60) * 1000
                   ELSE t + Max(ExpiresIn(r) - 60, 0) * 1000]

\* faulty variant of GetAccessToken: the cache is cleared before the exchange, so a
\* failed exchange leaves it empty
GetAccessToken_ClearsBeforeExchange(f, force, c, t, r) ==
    IF ~force /\ c.set /\ t < c.expiresAt
    THEN [threw |-> FALSE, called |-> FALSE, token |-> c.token, cache |-> c]
    ELSE IF ~r.ok
    THEN [threw |-> TRUE, called |-> TRUE, token |-> Undefined, cache |-> NullCache]
    ELSE IF f = "org" /\ ~Truthy(r.access_token)
    THEN [threw |-> TRUE, called |-> TRUE, token |-> Undefined, cache |-> NullCache]
    ELSE [threw |-> FALSE, called |-> TRUE, token |-> r.access_token,
          cache |-> NewCache(f, t, r)]

\* faulty variant of GetAccessToken: a token is still served at the instant it expires
GetAccessToken_ServedAtExpiry(f, force, c, t, r) ==
    IF ~force /\ c.set /\ t <= c.expiresAt
    THEN [threw |-> FALSE, called |-> FALSE, token |-> c.token, cache |-> c]
    ELSE IF ~r.ok
    THEN [threw |-> TRUE, called |-> TRUE, token |-> Undefined, cache |-> c]
    ELSE IF f = "org" /\ ~Truthy(r.access_token)
    THEN [threw |-> TRUE, called |-> TRUE, token |-> Undefined, cache |-> c]
    ELSE [threw |-> FALSE, called |-> TRUE, token |-> r.access_token,
          cache |-> NewCache(f, t, r)]

\* getAccessToken(force) at time t with cache c; r is the token endpoint's
\* answer, read only when the exchange is made
GetAccessToken(f, force, c, t, r) ==
    IF ~force /\ c.set /\ t < c.expiresAt
    THEN [threw |-> FALSE, called |-> FALSE, token |-> c.token, cache |-> c]
    ELSE IF ~r.ok
    THEN [threw |-> TRUE, called |-> TRUE, token |-> Undefined, cache |-> c]
    ELSE IF f = "org" /\ ~Truthy(r.access_token)
    THEN [threw |-> TRUE, called |-> TRUE, token |-> Undefined, cache |-> c]
    ELSE [threw |-> FALSE, called |-> TRUE, token |-> r.access_token,
          cache |-> NewCache(f, t, r)]

\* the token endpoint was not asked
NoResponse == [ok |-> FALSE, access_token |-> Undefined, expires_in |-> NoExpiresIn]

\* no getAccessToken call observed yet
NoTokCall ==
    [made |-> FALSE, force |-> FALSE, before |-> NullCache, at |-> 0, requests |-> 0,
     resp |-> NoResponse, threw |-> FALSE, token |-> Undefined]

\* ------------------------------------------------------------- state
VARIABLES
    flow,        \* which script runs: "global" or "org"
    env,         \* process.env: the confirmation variables
    srv,         \* what the server may answer in this run
    pc,          \* the function of the script that is running
    exitCode,    \* process exit code
    runError,    \* the error that ended the run, "none" while there is none
    tokenCache,  \* let tokenCache
    now,         \* Date.now()
    req,         \* the logical request (requestWithRetry call chain) in progress
    reqLog,      \* statuses the logical request in progress has received
    pag,         \* locals of the paginator that is running
    hist,        \* page responses of the enumeration that is running
    bulk,        \* locals of the bulk deletion that is running
    totals,      \* running totals of main (org script)
    orgUsers,    \* const orgUsers and the loop position of main (org script)
    outcomes,    \* delete calls finished in this run: <<id, succeeded>>
    netCalls,    \* fetch() calls issued so far
    tokCall,     \* the last getAccessToken call of a token-manager run
    wait,        \* the inputs and the result of one backoff wait computation
    replay,      \* one feed of page responses and what each opaque paginator did with it
    faultsLeft, pagesLeft, ticksLeft

vars == <<flow, env, srv, pc, exitCode, runError, tokenCache, now, req, reqLog, pag, hist,
          bulk, totals, orgUsers, outcomes, netCalls, tokCall, wait, replay,
          faultsLeft, pagesLeft, ticksLeft>>

\* what a run of a script never changes
cfgVars == <<flow, env, srv, tokCall, wait, replay>>

budgetVars == <<faultsLeft, pagesLeft, ticksLeft>>

progVars == <<runError, pag, hist, bulk, totals, orgUsers>>

\* ------------------------------------------------------------- requests
NoReq ==
    [kind |-> "none", arg |-> Undefined, attempt |-> 0, refreshedAfter401 |-> FALSE,
     st |-> "idle", status |-> 0, forced |-> 0]

\* a call requestWithRetry(url, init) with the default attempt = 0
NewReq(kind, arg) ==
    [kind |-> kind, arg |-> arg, attempt |-> 0, refreshedAfter401 |-> FALSE,
     st |-> "pending", status |-> 0, forced |-> 0]

\* if (status === 401 && ...): the guard of the refresh-and-retry branch
RefreshCond(f, r, status) ==
    /\ status = 401
    /\ IF f = "global" THEN r.attempt < 1 ELSE ~r.refreshedAfter401

\* faulty variant of RetryCond: attempt <= MAX_RETRIES
RetryCond_OffByOne(r, status) ==
    /\ status = 429 \/ status >= 500
    /\ r.attempt <= MAX_RETRIES

\* faulty variant of RetryCond: every 4xx/5xx status is retried
RetryCond_AnyError(r, status) ==
    /\ status >= 400
    /\ r.attempt < MAX_RETRIES

\* if ((status === 429 || status >= 500) && attempt < MAX_RETRIES)
RetryCond(r, status) ==
    /\ status = 429 \/ status >= 500
    /\ r.attempt < MAX_RETRIES

\* the recursive call made by the refresh-and-retry branch
AfterRefresh(f, r) ==
    IF f = "global"
    THEN [r EXCEPT !.attempt = r.attempt + 1, !.forced = r.forced + 1]
    ELSE [r EXCEPT !.refreshedAfter401 = TRUE, !.forced = r.forced + 1]

\* the recursive call made by the backoff branch
AfterBackoff(r) == [r EXCEPT !.attempt = r.attempt + 1]

TokenCost(g, r) == IF g.called /\ TokenFault(r) THEN 1 ELSE 0

StatusCost(status) == IF status = 200 THEN 0 ELSE 1

CallCount(g) == IF g.called THEN 1 ELSE 0

\* requestWithRetry: the getAccessToken() at its top throws
ReqTokenFail ==
    /\ req.st = "pending"
    /\ \E r1 \in srv.tokenResponses :
        LET g == GetAccessToken(flow, FALSE, tokenCache, now, r1) IN
        /\ g.threw
        /\ TokenCost(g, r1) <= faultsLeft
        /\ faultsLeft' = faultsLeft - TokenCost(g, r1)
        /\ tokenCache' = g.cache
        /\ netCalls' = netCalls + CallCount(g)
        /\ req' = [req EXCEPT !.st = "threw"]
    /\ UNCHANGED <<cfgVars, pc, exitCode, now, reqLog, progVars, outcomes,
                   pagesLeft, ticksLeft>>

\* requestWithRetry: the response is returned to the caller
ReqReturn ==
    /\ req.st = "pending"
    /\ \E r1 \in srv.tokenResponses, status \in Statuses :
        LET g == GetAccessToken(flow, FALSE, tokenCache, now, r1) IN
        /\ ~g.threw
        /\ ~RefreshCond(flow, req, status)
        /\ ~RetryCond(req, status)
        /\ TokenCost(g, r1) + StatusCost(status) <= faultsLeft
        /\ faultsLeft' = faultsLeft - TokenCost(g, r1) - StatusCost(status)
        /\ tokenCache' = g.cache
        /\ netCalls' = netCalls + CallCount(g) + 1
        /\ reqLog' = Append(reqLog, status)
        /\ req' = [req EXCEPT !.st = "returned", !.status = status]
    /\ UNCHANGED <<cfgVars, pc, exitCode, now, progVars, outcomes, pagesLeft, ticksLeft>>

\* requestWithRetry: 401, forced refresh, then the recursive call
ReqRefreshOn401 ==
    /\ req.st = "pending"
    /\ \E r1 \in srv.tokenResponses, status \in Statuses, r2 \in srv.tokenResponses :
        LET g == GetAccessToken(flow, FALSE, tokenCache, now, r1)
            h == GetAccessToken(flow, TRUE, g.cache, now, r2) IN
        /\ ~g.threw
        /\ RefreshCond(flow, req, status)
        /\ TokenCost(g, r1) + StatusCost(status) + TokenCost(h, r2) <= faultsLeft
        /\ faultsLeft' = faultsLeft - TokenCost(g, r1) - StatusCost(status)
                            - TokenCost(h, r2)
        /\ tokenCache' = h.cache
        /\ netCalls' = netCalls + CallCount(g) + 1 + CallCount(h)
        /\ reqLog' = Append(reqLog, status)
        /\ req' = IF h.threw
                  THEN [req EXCEPT !.st = "threw", !.forced = req.forced + 1]
                  ELSE AfterRefresh(flow, req)
    /\ UNCHANGED <<cfgVars, pc, exitCode, now, progVars, outcomes, pagesLeft, ticksLeft>>

\* requestWithRetry: 429 or 5xx, sleep, then the recursive call
ReqBackoffRetry ==
    /\ req.st = "pending"
    /\ \E r1 \in srv.tokenResponses, status \in Statuses :
        LET g == GetAccessToken(flow, FALSE, tokenCache, now, r1) IN
        /\ ~g.threw
        /\ ~RefreshCond(flow, req, status)
        /\ RetryCond(req, status)
        /\ TokenCost(g, r1) + StatusCost(status) <= faultsLeft
        /\ faultsLeft' = faultsLeft - TokenCost(g, r1) - StatusCost(status)
        /\ tokenCache' = g.cache
        /\ netCalls' = netCalls + CallCount(g) + 1
        /\ reqLog' = Append(reqLog, status)
        /\ req' = AfterBackoff(req)
    /\ UNCHANGED <<cfgVars, pc, exitCode, now, progVars, outcomes, pagesLeft, ticksLeft>>

\* time passes while the script is suspended on the network or in sleep()
Tick ==
    /\ req.st = "pending"
    /\ ticksLeft > 0
    /\ ticksLeft' = ticksLeft - 1
    /\ now' = now + TickMs
    /\ UNCHANGED <<cfgVars, pc, exitCode, tokenCache, req, reqLog, progVars, outcomes,
                   netCalls, faultsLeft, pagesLeft>>

\* ------------------------------------------------------------- backoff wait
\* the Retry-After header of a response: absent, a number of seconds, an
\* HTTP date (value: what Date.parse gives, in ms), or text that is neither
NoHeader == [kind |-> "absent", value |-> 0]

RetryAfterHeaders ==
    {NoHeader, [kind |-> "invalid", value |-> 0]}
    \cup {[kind |-> "seconds", value |-> v] : v \in {0, 1, 20}}
    \cup {[kind |-> "date", value |-> v] : v \in {TickMs \div 2, TickMs + TickMs \div 2}}

Jitters == {0, 1, JitterRange - 1}

\* parseRetryAfterMs gives undefined
NoHint == 0 - 1

\* the number NaN
NaN == 0 - 2

\* parseRetryAfterMs(retryAfter) at time t
ParseRetryAfterMs(h, t) ==
    CASE h.kind = "absent" -> NoHint
      [] h.kind = "seconds" -> h.value * 1000
      [] h.kind = "date" -> Max(0, h.value - t)
      [] OTHER -> NoHint

\* faulty variant of BackoffMs: the cap is missing
BackoffMs_Uncapped(attempt) == BASE_DELAY_MS * 2 ^ attempt

\* Math.min(BASE_DELAY_MS * 2 ** attempt, 15000)
BackoffMs(attempt) == Min(BASE_DELAY_MS * 2 ^ attempt, MaxBackoffMs)

\* retryAfter ? Number(retryAfter) * 1000 : Math.min(...)   (deleteAllUsers.ts)
BaseDelay(h, attempt) ==
    CASE h.kind = "absent" -> BackoffMs(attempt)
      [] h.kind = "seconds" -> h.value * 1000
      [] OTHER -> NaN

\* the argument of sleep() in the backoff branch of requestWithRetry
WaitMs(f, h, attempt, jitter, t) ==
    IF f = "global"
    THEN IF BaseDelay(h, attempt) = NaN THEN NaN ELSE BaseDelay(h, attempt) + jitter
    ELSE (IF ParseRetryAfterMs(h, t) = NoHint
          THEN BackoffMs(attempt)
          ELSE ParseRetryAfterMs(h, t)) + jitter

\* no wait computed yet
NoWait == [header |-> NoHeader, attempt |-> 0, jitter |-> 0, applied |-> FALSE, ms |-> 0]

\* ------------------------------------------------------------- paginators
InitPag ==
    [all |-> <<>>, nextToken |-> Undefined, prevToken |-> Undefined,
     startingAfter |-> Undefined]

EmptyHist == [kind |-> "none", pages |-> <<>>, done |-> FALSE, result |-> <<>>]

\* the pages of the enumeration in progress (a finished one is forgotten)
OpenPages(kind) == IF hist.done \/ hist.kind # kind THEN <<>> ELSE hist.pages

PageRecord(sent, items, next, more) ==
    [sent |-> sent, items |-> items, next |-> next, has_more |-> more]

\* faulty variant of StopAllUsers: the empty-page test is missing
StopAllUsers_NoEmptyBreak(prevToken, nextToken, users) ==
    ~Truthy(nextToken) \/ nextToken = prevToken

\* faulty variant of StopAllUsers: the comparison with prevToken is missing
StopAllUsers_NoStallGuard(prevToken, nextToken, users) ==
    ~Truthy(nextToken) \/ Len(users) = 0

\* collectAllUsers: if (!nextToken || nextToken === prevToken || users.length === 0)
StopAllUsers(prevToken, nextToken, users) ==
    ~Truthy(nextToken) \/ nextToken = prevToken \/ Len(users) = 0

\* faulty variant of StopOrganizationUsers: the empty-page break is missing
StopOrganizationUsers_NoEmptyBreak(nextToken, newNextToken, pageUsers) ==
    IF ~Truthy(newNextToken) THEN TRUE
    ELSE newNextToken = nextToken

\* collectOrganizationUsers: the three break statements, in order
StopOrganizationUsers(nextToken, newNextToken, pageUsers) ==
    IF Len(pageUsers) = 0 THEN TRUE
    ELSE IF ~Truthy(newNextToken) THEN TRUE
    ELSE newNextToken = nextToken

\* what a paginator did with a feed: the next_token arguments of its fetches, the
\* items it accumulated, and whether its loop ended
NoRun == [ran |-> FALSE, sent |-> <<>>, all |-> <<>>, done |-> FALSE]

NoReplay == [responses |-> <<>>, users |-> NoRun, orgUsers |-> NoRun]

\* collectAllUsers on the page responses rs, from the fetch with nextToken on; the
\* fetch after the last response of the feed stays unanswered
RECURSIVE CollectAllUsers(_, _, _, _)
CollectAllUsers(rs, nextToken, all, sent) ==
    IF rs = <<>>
    THEN [ran |-> TRUE, sent |-> Append(sent, nextToken), all |-> all, done |-> FALSE]
    ELSE LET data == Head(rs) IN
         IF StopAllUsers(nextToken, data.next_token, data.users)
         THEN [ran |-> TRUE, sent |-> Append(sent, nextToken),
               all |-> all \o data.users, done |-> TRUE]
         ELSE CollectAllUsers(Tail(rs), data.next_token, all \o data.users,
                              Append(sent, nextToken))

\* collectOrganizationUsers on the page responses rs, likewise
RECURSIVE CollectOrganizationUsers(_, _, _, _)
CollectOrganizationUsers(rs, nextToken, users, sent) ==
    IF rs = <<>>
    THEN [ran |-> TRUE, sent |-> Append(sent, nextToken), all |-> users, done |-> FALSE]
    ELSE LET data == Head(rs) IN
         IF StopOrganizationUsers(nextToken, data.next_token, data.users)
         THEN [ran |-> TRUE, sent |-> Append(sent, nextToken),
               all |-> users \o data.users, done |-> TRUE]
         ELSE CollectOrganizationUsers(Tail(rs), data.next_token, users \o data.users,
                                       Append(sent, nextToken))

\* faulty variant of NewStartingAfter: the id of the first item of the page
NewStartingAfter_First(identities) ==
    IF Len(identities) = 0 THEN Undefined ELSE identities[1]

\* collectAllUserIdentities: identities[identities.length - 1]?.id
NewStartingAfter(identities) ==
    IF Len(identities) = 0 THEN Undefined ELSE identities[Len(identities)]

\* faulty variant of StopUserIdentities: has_more is not looked at
StopUserIdentities_IgnoresHasMore(startingAfter, identities, has_more) ==
    IF Len(identities) = 0 THEN TRUE
    ELSE IF ~Truthy(NewStartingAfter(identities)) THEN TRUE
    ELSE NewStartingAfter(identities) = startingAfter

\* faulty variant of StopUserIdentities: the comparison with startingAfter is missing
StopUserIdentities_NoStallGuard(startingAfter, identities, has_more) ==
    IF Len(identities) = 0 THEN TRUE
    ELSE IF ~has_more THEN TRUE
    ELSE ~Truthy(NewStartingAfter(identities))

\* collectAllUserIdentities: the four break statements, in order
StopUserIdentities(startingAfter, identities, has_more) ==
    IF Len(identities) = 0 THEN TRUE
    ELSE IF ~has_more THEN TRUE
    ELSE IF ~Truthy(NewStartingAfter(identities)) THEN TRUE
    ELSE NewStartingAfter(identities) = startingAfter

\* collectAllUserIdentities: an empty page breaks before allIdentities.push
PushIdentities(allIdentities, identities) ==
    IF Len(identities) = 0 THEN allIdentities ELSE allIdentities \o identities

\* ------------------------------------------------------------- bulk deletion
NoBulk ==
    [input |-> <<>>, items |-> <<>>, index |-> 0, deleted |-> 0, failed |-> 0,
     processed |-> 0, base |-> 0, done |-> FALSE]

RECURSIVE Dedupe(_)
\* Array.from(new Set(ids)): first occurrences, in order
Dedupe(s) ==
    IF s = <<>> THEN <<>>
    ELSE LET r == Dedupe(SubSeq(s, 1, Len(s) - 1))
             x == s[Len(s)]
         IN IF \E i \in DOMAIN r : r[i] = x THEN r ELSE Append(r, x)

\* deleteAllUserIdentities: ids, filter(Boolean), new Set
UniqueIdentityIds(identities) == Dedupe(SelectSeq(identities, Truthy))

\* deleteAllUsers iterates the users as collected
UsersToDelete(users) == users

\* the batch a bulk deletion starts with; in the org script processed = index + 1
\* is assigned before the first delete is awaited
StartBulk(f, input, items) ==
    [input |-> input, items |-> items, index |-> 1, deleted |-> 0, failed |-> 0,
     processed |-> IF f = "org" THEN 1 ELSE 0, base |-> Len(outcomes), done |-> FALSE]

\* the early returns of deleteAllUserIdentities: { deleted: 0, failed: 0, processed: 0 }
EmptyBulk(input) == [NoBulk EXCEPT !.input = input, !.base = Len(outcomes), !.done = TRUE]

\* the try / catch around one delete: deleted++ (success++) or failed++
CountDelete(b, ok) ==
    IF ok THEN [b EXCEPT !.deleted = b.deleted + 1]
    ELSE [b EXCEPT !.failed = b.failed + 1]

\* faulty variant of NextIteration: processed = index
NextIteration_Index(f, b) ==
    [b EXCEPT !.index = b.index + 1,
              !.processed = IF f = "org" THEN b.index ELSE b.processed]

\* the next iteration of the for loop over entries()
NextIteration(f, b) ==
    [b EXCEPT !.index = b.index + 1,
              !.processed = IF f = "org" THEN b.index + 1 ELSE b.processed]

\* deleteUser / deleteIdentity resolved: the request returned a 2xx response
DeleteSucceeded(r) == r.st = "returned" /\ Ok(r.status)

\* ------------------------------------------------------------- main
ZeroTotals ==
    [usersProcessed |-> 0, identitiesProcessed |-> 0, identitiesDeleted |-> 0,
     identitiesFailed |-> 0]

\* faulty variant of AddResult: the failure count is overwritten, not accumulated
AddResult_LastFailedOnly(t, result) ==
    [usersProcessed |-> t.usersProcessed + 1,
     identitiesProcessed |-> t.identitiesProcessed + result.processed,
     identitiesDeleted |-> t.identitiesDeleted + result.deleted,
     identitiesFailed |-> result.failed]

\* main (org): the four accumulations after deleteAllUserIdentities returns
AddResult(t, result) ==
    [usersProcessed |-> t.usersProcessed + 1,
     identitiesProcessed |-> t.identitiesProcessed + result.processed,
     identitiesDeleted |-> t.identitiesDeleted + result.deleted,
     identitiesFailed |-> t.identitiesFailed + result.failed]

\* main (org): if (identitiesFailed > 0) process.exitCode = 1
ExitCodeOrg(t, code) == IF t.identitiesFailed > 0 THEN 1 ELSE code

\* main (global): deleteAllUsers returns nothing and main sets no exit code after it
ExitCodeGlobal(b, code) == code

\* faulty variant of MainAfterUser: the loop over orgUsers does not move on to the
\* next user
MainAfterUser_SameUser(result) ==
    /\ totals' = AddResult(totals, result)
    /\ pag' = InitPag
    /\ IF orgUsers.index < Len(orgUsers.users)
       THEN /\ orgUsers' = orgUsers
            /\ pc' = "collectAllUserIdentities"
            /\ req' = NewReq("getUserIdentitiesPage", Undefined)
            /\ exitCode' = exitCode
       ELSE /\ orgUsers' = orgUsers
            /\ pc' = "exit"
            /\ req' = NoReq
            /\ exitCode' = ExitCodeOrg(totals', exitCode)

\* main (org) after deleteAllUserIdentities returned result for the current user:
\* accumulate, then the next user's enumeration or the end of the run
MainAfterUser(result) ==
    /\ totals' = AddResult(totals, result)
    /\ pag' = InitPag
    /\ IF orgUsers.index < Len(orgUsers.users)
       THEN /\ orgUsers' = [orgUsers EXCEPT !.index = orgUsers.index + 1]
            /\ pc' = "collectAllUserIdentities"
            /\ req' = NewReq("getUserIdentitiesPage", Undefined)
            /\ exitCode' = exitCode
       ELSE /\ orgUsers' = orgUsers
            /\ pc' = "exit"
            /\ req' = NoReq
            /\ exitCode' = ExitCodeOrg(totals', exitCode)

\* module top level: the confirmation guard, then main() up to its first request
LoadModule ==
    /\ pc = "load"
    /\ IF ~Confirmed(flow, env)
       THEN /\ pc' = "exit"
            /\ exitCode' = 1
            /\ runError' = "ConfigError"
            /\ req' = NoReq
       ELSE /\ exitCode' = exitCode
            /\ runError' = runError
            /\ IF flow = "global"
               THEN /\ pc' = "collectAllUsers"
                    /\ req' = NewReq("getUsersPage", Undefined)
               ELSE /\ pc' = "collectOrganizationUsers"
                    /\ req' = NewReq("getOrganizationUsersPage", Undefined)
    /\ UNCHANGED <<cfgVars, tokenCache, now, reqLog, pag, hist, bulk, totals, orgUsers,
                   outcomes, netCalls, budgetVars>>

InEnumeration ==
    pc \in {"collectAllUsers", "collectOrganizationUsers", "collectAllUserIdentities"}

\* faulty variant of GetPageThrows: the error is caught and logged, process.exitCode
\* is left alone
GetPageThrows_NoExitCode ==
    /\ InEnumeration
    /\ \/ /\ req.st = "threw"
          /\ faultsLeft' = faultsLeft
       \/ /\ req.st = "returned" /\ ~Ok(req.status)
          /\ faultsLeft' = faultsLeft
       \/ /\ req.st = "returned" /\ Ok(req.status)
          /\ faultsLeft > 0
          /\ faultsLeft' = faultsLeft - 1
    /\ pc' = "exit"
    /\ exitCode' = exitCode
    /\ runError' = IF req.st = "threw" THEN "AuthError" ELSE "PageFetchError"
    /\ req' = NoReq
    /\ reqLog' = <<>>
    /\ UNCHANGED <<cfgVars, tokenCache, now, pag, hist, bulk, totals, orgUsers,
                   outcomes, netCalls, pagesLeft, ticksLeft>>

\* getUsersPage / getOrganizationUsersPage / getUserIdentitiesPage throw (the request
\* threw, the response is not ok, or its body is not JSON); main's catch ends the run
GetPageThrows ==
    /\ InEnumeration
    /\ \/ /\ req.st = "threw"
          /\ faultsLeft' = faultsLeft
       \/ /\ req.st = "returned" /\ ~Ok(req.status)
          /\ faultsLeft' = faultsLeft
       \/ /\ req.st = "returned" /\ Ok(req.status)
          /\ faultsLeft > 0
          /\ faultsLeft' = faultsLeft - 1
    /\ pc' = "exit"
    /\ exitCode' = 1
    /\ runError' = IF req.st = "threw" THEN "AuthError" ELSE "PageFetchError"
    /\ req' = NoReq
    /\ reqLog' = <<>>
    /\ UNCHANGED <<cfgVars, tokenCache, now, pag, hist, bulk, totals, orgUsers,
                   outcomes, netCalls, pagesLeft, ticksLeft>>

\* collectAllUsers: one iteration of the loop on a parsed page, and, when the loop
\* ends, main up to the first deleteUser request
CollectAllUsersPage ==
    /\ pc = "collectAllUsers"
    /\ req.st = "returned" /\ Ok(req.status)
    /\ pagesLeft > 0
    /\ \E users \in srv.items, next_token \in srv.nextTokens :
        LET all == pag.all \o users
            pages == Append(OpenPages("users"),
                            PageRecord(pag.nextToken, users, next_token, FALSE))
        IN
        /\ pag' = [pag EXCEPT !.all = all, !.prevToken = pag.nextToken,
                              !.nextToken = next_token]
        /\ IF ~StopAllUsers(pag.nextToken, next_token, users)
           THEN /\ pc' = pc
                /\ req' = NewReq("getUsersPage", next_token)
                /\ hist' = [kind |-> "users", pages |-> pages, done |-> FALSE,
                            result |-> <<>>]
                /\ bulk' = bulk
           ELSE /\ hist' = [kind |-> "users", pages |-> pages, done |-> TRUE,
                            result |-> all]
                /\ IF Len(all) = 0
                   THEN /\ pc' = "exit"
                        /\ req' = NoReq
                        /\ bulk' = bulk
                   ELSE /\ pc' = "deleteAllUsers"
                        /\ bulk' = StartBulk(flow, all, UsersToDelete(all))
                        /\ req' = NewReq("deleteUser", UsersToDelete(all)[1])
    /\ pagesLeft' = pagesLeft - 1
    /\ reqLog' = <<>>
    /\ UNCHANGED <<cfgVars, exitCode, runError, tokenCache, now, totals, orgUsers,
                   outcomes, netCalls, faultsLeft, ticksLeft>>

\* deleteAllUsers: one delete resolved or rejected, then the next one or the end of main
DeleteUserDone ==
    /\ pc = "deleteAllUsers"
    /\ req.st \in {"returned", "threw"}
    /\ LET b == CountDelete(bulk, DeleteSucceeded(req)) IN
        /\ outcomes' = Append(outcomes, <<req.arg, DeleteSucceeded(req)>>)
        /\ IF b.index < Len(b.items)
           THEN /\ bulk' = NextIteration(flow, b)
                /\ req' = NewReq("deleteUser", b.items[b.index + 1])
                /\ pc' = pc
                /\ exitCode' = exitCode
           ELSE /\ bulk' = [b EXCEPT !.done = TRUE]
                /\ req' = NoReq
                /\ pc' = "exit"
                /\ exitCode' = ExitCodeGlobal(b, exitCode)
    /\ reqLog' = <<>>
    /\ hist' = EmptyHist
    /\ UNCHANGED <<cfgVars, runError, tokenCache, now, pag, totals, orgUsers, netCalls,
                   budgetVars>>

\* collectOrganizationUsers: one iteration of the loop on a parsed page, and, when the
\* loop ends, main up to the first identities request
CollectOrganizationUsersPage ==
    /\ pc = "collectOrganizationUsers"
    /\ req.st = "returned" /\ Ok(req.status)
    /\ pagesLeft > 0
    /\ \E pageUsers \in srv.items, newNextToken \in srv.nextTokens :
        LET users == pag.all \o pageUsers
            pages == Append(OpenPages("orgUsers"),
                            PageRecord(pag.nextToken, pageUsers, newNextToken, FALSE))
        IN
        IF ~StopOrganizationUsers(pag.nextToken, newNextToken, pageUsers)
        THEN /\ pag' = [pag EXCEPT !.all = users, !.nextToken = newNextToken]
             /\ pc' = pc
             /\ req' = NewReq("getOrganizationUsersPage", newNextToken)
             /\ hist' = [kind |-> "orgUsers", pages |-> pages, done |-> FALSE,
                         result |-> <<>>]
             /\ UNCHANGED <<orgUsers, totals>>
        ELSE /\ hist' = [kind |-> "orgUsers", pages |-> pages, done |-> TRUE,
                         result |-> users]
             /\ pag' = InitPag
             /\ IF Len(users) = 0
                THEN /\ pc' = "exit"
                     /\ req' = NoReq
                     /\ UNCHANGED <<orgUsers, totals>>
                ELSE /\ orgUsers' = [users |-> users, index |-> 1]
                     /\ totals' = ZeroTotals
                     /\ pc' = "collectAllUserIdentities"
                     /\ req' = NewReq("getUserIdentitiesPage", Undefined)
    /\ pagesLeft' = pagesLeft - 1
    /\ reqLog' = <<>>
    /\ UNCHANGED <<cfgVars, exitCode, runError, tokenCache, now, bulk, outcomes,
                   netCalls, faultsLeft, ticksLeft>>

\* collectAllUserIdentities: one iteration of the loop on a parsed page, and, when the
\* loop ends, deleteAllUserIdentities up to its first deleteIdentity request (or its
\* early return into main)
CollectAllUserIdentitiesPage ==
    /\ pc = "collectAllUserIdentities"
    /\ req.st = "returned" /\ Ok(req.status)
    /\ pagesLeft > 0
    /\ \E identities \in srv.items, has_more \in BOOLEAN :
        LET allIdentities == PushIdentities(pag.all, identities)
            pages == Append(OpenPages("identities"),
                            PageRecord(pag.startingAfter, identities, Undefined, has_more))
            uniqueIdentityIds == UniqueIdentityIds(allIdentities)
        IN
        IF ~StopUserIdentities(pag.startingAfter, identities, has_more)
        THEN /\ pag' = [pag EXCEPT !.all = allIdentities,
                                   !.startingAfter = NewStartingAfter(identities)]
             /\ pc' = pc
             /\ req' = NewReq("getUserIdentitiesPage", NewStartingAfter(identities))
             /\ hist' = [kind |-> "identities", pages |-> pages, done |-> FALSE,
                         result |-> <<>>]
             /\ UNCHANGED <<bulk, totals, orgUsers, exitCode>>
        ELSE /\ hist' = [kind |-> "identities", pages |-> pages, done |-> TRUE,
                         result |-> allIdentities]
             /\ IF Len(allIdentities) = 0 \/ Len(uniqueIdentityIds) = 0
                THEN /\ bulk' = EmptyBulk(allIdentities)
                     /\ MainAfterUser(bulk')
                ELSE /\ bulk' = StartBulk(flow, allIdentities, uniqueIdentityIds)
                     /\ pag' = [pag EXCEPT !.all = allIdentities]
                     /\ pc' = "deleteAllUserIdentities"
                     /\ req' = NewReq("deleteIdentity", uniqueIdentityIds[1])
                     /\ UNCHANGED <<totals, orgUsers, exitCode>>
    /\ pagesLeft' = pagesLeft - 1
    /\ reqLog' = <<>>
    /\ UNCHANGED <<cfgVars, runError, tokenCache, now, outcomes, netCalls, faultsLeft,
                   ticksLeft>>

\* deleteAllUserIdentities: one delete resolved or rejected, then the next one, or
\* the return into main
DeleteIdentityDone ==
    /\ pc = "deleteAllUserIdentities"
    /\ req.st \in {"returned", "threw"}
    /\ LET b == CountDelete(bulk, DeleteSucceeded(req)) IN
        /\ outcomes' = Append(outcomes, <<req.arg, DeleteSucceeded(req)>>)
        /\ IF b.index < Len(b.items)
           THEN /\ bulk' = NextIteration(flow, b)
                /\ req' = NewReq("deleteIdentity", b.items[b.index + 1])
                /\ UNCHANGED <<pc, exitCode, totals, orgUsers, pag>>
           ELSE /\ bulk' = [b EXCEPT !.done = TRUE]
                /\ MainAfterUser(bulk')
    /\ reqLog' = <<>>
    /\ hist' = EmptyHist
    /\ UNCHANGED <<cfgVars, runError, tokenCache, now, netCalls, budgetVars>>

\* ------------------------------------------------------------- runs
EnvCases ==
    {[KINDE_CONFIRM_DELETE_ALL |-> a, KINDE_CONFIRM_DELETE_ORG_IDENTITIES |-> o] :
        a \in {Undefined, "", "false"}, o \in {Undefined}}
    \cup {[KINDE_CONFIRM_DELETE_ALL |-> "true",
           KINDE_CONFIRM_DELETE_ORG_IDENTITIES |-> Undefined],
          [KINDE_CONFIRM_DELETE_ALL |-> "TRUE",
           KINDE_CONFIRM_DELETE_ORG_IDENTITIES |-> "true"],
          [KINDE_CONFIRM_DELETE_ALL |-> Undefined,
           KINDE_CONFIRM_DELETE_ORG_IDENTITIES |-> "true"]}

Pages == {<<>>, <<"a", "b">>} \cup {<<i>> : i \in Ids}

\* a flaky server in front of a small collection
FlakyServer ==
    [faults |-> MaxFaults, pages |-> 2, ticks |-> MaxTicks,
     tokenResponses |-> TokenResponses,
     items |-> {<<>>, <<"a">>}, nextTokens |-> {Undefined}]

\* a mostly healthy server in front of a paged collection
PagingServer ==
    [faults |-> 1, pages |-> MaxPages, ticks |-> 0,
     tokenResponses |-> {r \in TokenResponses :
                            r.access_token \in {Undefined, "t1"}
                            /\ r.expires_in = NoExpiresIn},
     items |-> Pages, nextTokens |-> NextTokens]

\* a healthy server in front of a collection of at most one item
QuietServer ==
    [faults |-> 0, pages |-> 2, ticks |-> 0,
     tokenResponses |-> {r \in TokenResponses :
                            r.access_token = "t1" /\ r.expires_in = NoExpiresIn},
     items |-> {<<>>, <<"a">>}, nextTokens |-> {Undefined}]

Servers == {FlakyServer, PagingServer, QuietServer}

Init ==
    /\ flow \in {"global", "org"}
    /\ env \in EnvCases
    /\ srv \in Servers
    /\ env.KINDE_CONFIRM_DELETE_ALL = "TRUE" <=> srv = QuietServer
    /\ pc = "load"
    /\ exitCode = 0
    /\ runError = "none"
    /\ tokenCache = NullCache
    /\ now = 0
    /\ req = NoReq
    /\ reqLog = <<>>
    /\ pag = InitPag
    /\ hist = EmptyHist
    /\ bulk = NoBulk
    /\ totals = ZeroTotals
    /\ orgUsers = [users |-> <<>>, index |-> 0]
    /\ outcomes = <<>>
    /\ netCalls = 0
    /\ tokCall = NoTokCall
    /\ wait = NoWait
    /\ replay = NoReplay
    /\ faultsLeft = srv.faults
    /\ pagesLeft = srv.pages
    /\ ticksLeft = srv.ticks

Next ==
    \/ LoadModule
    \/ Tick
    \/ ReqTokenFail
    \/ ReqReturn
    \/ ReqRefreshOn401
    \/ ReqBackoffRetry
    \/ GetPageThrows
    \/ CollectAllUsersPage
    \/ DeleteUserDone
    \/ CollectOrganizationUsersPage
    \/ CollectAllUserIdentitiesPage
    \/ DeleteIdentityDone

Spec == Init /\ [][Next]_vars

\* ------------------------------------------------------------- token-manager runs
\* getAccessToken on its own: any sequence of calls, forced or not, with the
\* clock advancing between them and the token endpoint answering anything
InitToken ==
    /\ flow \in {"global", "org"}
    /\ env = [KINDE_CONFIRM_DELETE_ALL |-> "true",
              KINDE_CONFIRM_DELETE_ORG_IDENTITIES |-> Undefined]
    /\ srv = FlakyServer
    /\ pc = "getAccessToken"
    /\ exitCode = 0
    /\ runError = "none"
    /\ tokenCache = NullCache
    /\ now = 0
    /\ req = NoReq
    /\ reqLog = <<>>
    /\ pag = InitPag
    /\ hist = EmptyHist
    /\ bulk = NoBulk
    /\ totals = ZeroTotals
    /\ orgUsers = [users |-> <<>>, index |-> 0]
    /\ outcomes = <<>>
    /\ netCalls = 0
    /\ tokCall = NoTokCall
    /\ wait = NoWait
    /\ replay = NoReplay
    /\ faultsLeft = 0
    /\ pagesLeft = 0
    /\ ticksLeft = srv.ticks

\* one call getAccessToken(force)
TokenCall ==
    /\ pc = "getAccessToken"
    /\ \E force \in BOOLEAN, r \in srv.tokenResponses :
        LET g == GetAccessToken(flow, force, tokenCache, now, r) IN
        /\ netCalls + CallCount(g) <= MaxTokenCalls
        /\ tokenCache' = g.cache
        /\ netCalls' = netCalls + CallCount(g)
        /\ tokCall' = [made |-> TRUE, force |-> force, before |-> tokenCache, at |-> now,
                       requests |-> CallCount(g),
                       resp |-> IF g.called THEN r ELSE NoResponse,
                       threw |-> g.threw, token |-> g.token]
    /\ UNCHANGED <<flow, env, srv, pc, exitCode, now, req, reqLog, progVars, outcomes,
                   wait, replay, budgetVars>>

\* time passes between two calls
TokenTick ==
    /\ pc = "getAccessToken"
    /\ ticksLeft > 0
    /\ ticksLeft' = ticksLeft - 1
    /\ now' = now + TickMs
    /\ UNCHANGED <<cfgVars, pc, exitCode, tokenCache, req, reqLog, progVars, outcomes,
                   netCalls, faultsLeft, pagesLeft>>

NextToken ==
    \/ TokenCall
    \/ TokenTick

SpecToken == InitToken /\ [][NextToken]_vars

\* ------------------------------------------------------------- paginator replays
\* the two opaque-token paginators on the same feed of page responses
FeedResponses ==
    {[users |-> u, next_token |-> n] :
        u \in {<<>>, <<"a">>, <<"a", "b">>}, n \in NextTokens}

Feeds == UNION {[1..n -> FeedResponses] : n \in 0..MaxFeed}

InitReplay ==
    /\ flow = "global"
    /\ env = [KINDE_CONFIRM_DELETE_ALL |-> "true",
              KINDE_CONFIRM_DELETE_ORG_IDENTITIES |-> Undefined]
    /\ srv = PagingServer
    /\ pc = "replay"
    /\ exitCode = 0
    /\ runError = "none"
    /\ tokenCache = NullCache
    /\ now = 0
    /\ req = NoReq
    /\ reqLog = <<>>
    /\ pag = InitPag
    /\ hist = EmptyHist
    /\ bulk = NoBulk
    /\ totals = ZeroTotals
    /\ orgUsers = [users |-> <<>>, index |-> 0]
    /\ outcomes = <<>>
    /\ netCalls = 0
    /\ tokCall = NoTokCall
    /\ wait = NoWait
    /\ replay \in {[responses |-> rs, users |-> NoRun, orgUsers |-> NoRun] : rs \in Feeds}
    /\ faultsLeft = 0
    /\ pagesLeft = 0
    /\ ticksLeft = 0

\* collectAllUsers runs on the feed
ReplayCollectAllUsers ==
    /\ pc = "replay"
    /\ ~replay.users.ran
    /\ replay' = [replay EXCEPT
                    !.users = CollectAllUsers(replay.responses, Undefined, <<>>, <<>>)]
    /\ UNCHANGED <<flow, env, srv, tokCall, wait, pc, exitCode, tokenCache, now, req,
                   reqLog, progVars, outcomes, netCalls, budgetVars>>

\* collectOrganizationUsers runs on the feed
ReplayCollectOrganizationUsers ==
    /\ pc = "replay"
    /\ ~replay.orgUsers.ran
    /\ replay' = [replay EXCEPT
                    !.orgUsers = CollectOrganizationUsers(replay.responses, Undefined,
                                                          <<>>, <<>>)]
    /\ UNCHANGED <<flow, env, srv, tokCall, wait, pc, exitCode, tokenCache, now, req,
                   reqLog, progVars, outcomes, netCalls, budgetVars>>

NextReplay ==
    \/ ReplayCollectAllUsers
    \/ ReplayCollectOrganizationUsers

SpecReplay == InitReplay /\ [][NextReplay]_vars

\* ------------------------------------------------------------- backoff-wait runs
\* the wait computation of the backoff branch on its own: a 429/5xx response
\* with any Retry-After header, at any attempt index, with any jitter
InitWait ==
    /\ flow \in {"global", "org"}
    /\ env = [KINDE_CONFIRM_DELETE_ALL |-> "true",
              KINDE_CONFIRM_DELETE_ORG_IDENTITIES |-> Undefined]
    /\ srv = FlakyServer
    /\ pc = "backoff"
    /\ exitCode = 0
    /\ runError = "none"
    /\ tokenCache = NullCache
    /\ now \in {0, TickMs}
    /\ req = NoReq
    /\ reqLog = <<>>
    /\ pag = InitPag
    /\ hist = EmptyHist
    /\ bulk = NoBulk
    /\ totals = ZeroTotals
    /\ orgUsers = [users |-> <<>>, index |-> 0]
    /\ outcomes = <<>>
    /\ netCalls = 0
    /\ tokCall = NoTokCall
    /\ wait \in {[header |-> h, attempt |-> a, jitter |-> j, applied |-> FALSE, ms |-> 0] :
                    h \in RetryAfterHeaders, a \in 0..MaxWaitAttempt, j \in Jitters}
    /\ replay = NoReplay
    /\ faultsLeft = 0
    /\ pagesLeft = 0
    /\ ticksLeft = 0

\* the backoff branch computes the wait and sleeps
ComputeWait ==
    /\ pc = "backoff"
    /\ ~wait.applied
    /\ wait' = [wait EXCEPT !.applied = TRUE,
                            !.ms = WaitMs(flow, wait.header, wait.attempt, wait.jitter, now)]
    /\ UNCHANGED <<flow, env, srv, tokCall, replay, pc, exitCode, tokenCache, now, req,
                   reqLog, progVars, outcomes, netCalls, budgetVars>>

NextWait == ComputeWait

SpecWait == InitWait /\ [][NextWait]_vars

\* ------------------------------------------------------------- properties

\* the ids of the delete calls started so far in this run, in order
AttemptedIds ==
    [i \in 1..Len(outcomes) |-> outcomes[i][1]]
    \o (IF req.kind \in {"deleteUser", "deleteIdentity"} /\ req.st # "idle"
        THEN <<req.arg>> ELSE <<>>)

\* the delete calls of the current batch that have finished
BatchOutcomes == {i \in DOMAIN outcomes : i > bulk.base}

\* the distinct usable ids of the items the current batch was given
BatchIds == {bulk.input[i] : i \in DOMAIN bulk.input} \ {"", Undefined}

AnyDeleteFailed == \E i \in DOMAIN outcomes : ~outcomes[i][2]

\* the environment variable is unset or, ignoring case, not "true"
FlagNotTrue == env.KINDE_CONFIRM_DELETE_ALL \notin {"true", "TRUE"}

\* C1: with the confirmation flag unset or not "true", either script fails before any
\* HTTP request: no fetch() call is counted, no request exists, and the run has
\* ended with a configuration error and a non-zero exit code.
C1_NoNetworkWithoutConfirmation ==
    FlagNotTrue =>
        /\ netCalls = 0
        /\ req.st = "idle"
        /\ pc = "exit" => exitCode = 1 /\ runError = "ConfigError"

C1_Witness ==
    /\ flow = "org"
    /\ env.KINDE_CONFIRM_DELETE_ALL = "false"
    /\ pc = "exit"
    /\ exitCode = 1
    /\ netCalls = 0

\* C2: when the run has ended, the exit code is 0 exactly on full success: it is
\* non-zero whenever some delete failed or an error aborted the run.
C2_ExitCodeContract ==
    pc = "exit" => (exitCode = 0 <=> (~AnyDeleteFailed /\ runError = "none"))

\* C3: within one run no id is the argument of more than one logical delete call.
C3_AtMostOneDeletePerId ==
    \A i, j \in DOMAIN AttemptedIds : i # j => AttemptedIds[i] # AttemptedIds[j]

\* C4: when a batch has run to its end, every distinct id of the batch has been the
\* argument of exactly one delete call of that batch, whatever calls failed.
C4_EveryItemAttemptedOnce ==
    bulk.done =>
        \A id \in BatchIds :
            Cardinality({i \in BatchOutcomes : outcomes[i][1] = id}) = 1

\* the part of C4 that does not depend on duplicates: a batch that has ended has made
\* one delete call per entry of its list, failures included
BatchRunsToTheEnd ==
    bulk.done => Cardinality(BatchOutcomes) = Len(bulk.items)

\* C5: the result deleteAllUserIdentities returns for a batch of N distinct ids of
\* which F deletes failed is processed = N, deleted = N - F, failed = F.
C5_BulkResultAccounting ==
    flow = "org" /\ bulk.done =>
        LET N == Cardinality(BatchIds)
            F == Cardinality({i \in BatchOutcomes : ~outcomes[i][2]})
        IN /\ bulk.processed = N
           /\ bulk.deleted = N - F
           /\ bulk.failed = F
           /\ bulk.processed = bulk.deleted + bulk.failed

C5_Witness ==
    /\ flow = "org"
    /\ bulk.done
    /\ bulk.processed >= 2
    /\ bulk.failed >= 1
    /\ bulk.deleted >= 1

OpaqueHist == hist.kind \in {"users", "orgUsers"}

\* page j is the last page the enumeration fetched
LastPage(j) == j = Len(hist.pages) /\ hist.done

\* C6 as stated: in opaque-token pagination a page whose next_token equals the
\* next_token of any earlier page ends the enumeration.
C6_StopsOnAnyRepeatedToken ==
    OpaqueHist =>
        \A j \in DOMAIN hist.pages : \A i \in 1..(j - 1) :
            Truthy(hist.pages[j].next) /\ hist.pages[j].next = hist.pages[i].next
                => LastPage(j)

\* C6 as amended: in opaque-token pagination a page whose next_token equals the
\* token its own request was sent with ends the enumeration.
C6_StopsOnUnadvancedToken ==
    OpaqueHist =>
        \A j \in DOMAIN hist.pages :
            Truthy(hist.pages[j].next) /\ hist.pages[j].next = hist.pages[j].sent
                => LastPage(j)

C6_Witness ==
    /\ OpaqueHist
    /\ hist.done
    /\ Len(hist.pages) >= 2
    /\ LET p == hist.pages[Len(hist.pages)]
       IN Len(p.items) > 0 /\ Truthy(p.next) /\ p.next = p.sent

\* C7: in all three paginators a parsed page with zero items is the last page of
\* its enumeration, whatever next_token or has_more it carries.
C7_EmptyPageIsLast ==
    \A j \in DOMAIN hist.pages : Len(hist.pages[j].items) = 0 => LastPage(j)

C7_Witness ==
    /\ hist.kind = "orgUsers"
    /\ hist.done
    /\ Len(hist.pages) >= 2
    /\ LET p == hist.pages[Len(hist.pages)]
       IN Len(p.items) = 0 /\ Truthy(p.next) /\ p.next # p.sent

\* the id of the last item of a page
LastId(items) == IF Len(items) = 0 THEN Undefined ELSE items[Len(items)]

\* the continuation a page offers: its next_token, or, for identities, the id of
\* its last item while has_more is true
Continuation(p) ==
    IF hist.kind = "identities"
    THEN (IF p.has_more THEN LastId(p.items) ELSE Undefined)
    ELSE p.next

\* the first n pages are non-empty and offer pairwise distinct continuations
ChainPrefix(n) ==
    \A i \in 1..n :
        /\ Len(hist.pages[i].items) > 0
        /\ Truthy(Continuation(hist.pages[i]))
        /\ \A k \in 1..(i - 1) :
            Continuation(hist.pages[k]) # Continuation(hist.pages[i])

RECURSIVE ConcatItems(_)
ConcatItems(pages) ==
    IF pages = <<>> THEN <<>>
    ELSE ConcatItems(SubSeq(pages, 1, Len(pages) - 1)) \o pages[Len(pages)].items

\* C8: while the server serves a chain of non-empty pages with pairwise distinct
\* continuations, every fetch is sent with the continuation of the page before it,
\* the enumeration does not end before the chain does, and when the chain ends
\* (no next_token, has_more false) the paginator returns the concatenation of the
\* pages' items in order.
C8_EnumeratesWholeChain ==
    hist.kind # "none" /\ hist.pages # <<>> =>
        LET n == Len(hist.pages) IN
        ChainPrefix(n - 1) /\ Len(hist.pages[n].items) > 0 =>
            /\ \A i \in 1..n :
                hist.pages[i].sent =
                    IF i = 1 THEN Undefined ELSE Continuation(hist.pages[i - 1])
            /\ ChainPrefix(n) => ~hist.done
            /\ ~Truthy(Continuation(hist.pages[n])) =>
                hist.done /\ hist.result = ConcatItems(hist.pages)

C8_Witness ==
    /\ hist.kind = "identities"
    /\ hist.done
    /\ Len(hist.pages) = 2
    /\ ChainPrefix(1)
    /\ hist.pages[1].items = <<"a", "b">>
    /\ hist.pages[2].items = <<"a">>
    /\ ~hist.pages[2].has_more
    /\ hist.result = <<"a", "b", "a">>

Has401 == \E i \in DOMAIN reqLog : reqLog[i] = 401

First401 == CHOOSE i \in DOMAIN reqLog : reqLog[i] = 401 /\ \A k \in 1..(i - 1) : reqLog[k] # 401

\* C9: in a logical request that has returned, the first 401 response was followed
\* by exactly one forced token refresh and one re-issued request; when that request
\* answered 401 too, that 401 was returned; no logical request forces two refreshes.
C9_First401RefreshesOnce ==
    /\ req.forced <= 1
    /\ req.st = "returned" /\ Has401 =>
        /\ req.forced = 1
        /\ Len(reqLog) > First401
        /\ reqLog[First401 + 1] = 401 =>
            Len(reqLog) = First401 + 1 /\ req.status = 401

Retryable(status) == status = 429 \/ status >= 500

\* the number of 429 / 5xx responses before the first other response
LeadingRetryable(log) ==
    Cardinality({i \in DOMAIN log : \A k \in 1..i : Retryable(log[k])})

\* C10: a logical request that received no 401 and whose first k responses were
\* 429 / 5xx has made min(k, MAX_RETRIES) + 1 HTTP attempts when it returns, and it
\* returns the last response received; it never throws once its retries are used up.
C10_AttemptsAndLastResponse ==
    ~Has401 =>
        LET k == LeadingRetryable(reqLog)
            n == Len(reqLog)
        IN /\ req.st = "returned" =>
                n = Min(k, MAX_RETRIES) + 1 /\ req.status = reqLog[n]
           /\ req.st = "threw" => k = n /\ n <= MAX_RETRIES

C10_Witness ==
    /\ req.st = "returned"
    /\ ~Has401
    /\ Len(reqLog) = MAX_RETRIES + 1
    /\ Retryable(req.status)
    /\ LeadingRetryable(reqLog) = MAX_RETRIES + 1

\* C11: while exchanges succeed, a getAccessToken call makes exactly one
\* token-endpoint request when the cache is empty, expired (now >= expiresAt) or
\* force is true, and makes none and returns the cached token when the cache
\* holds an unexpired token and force is false.
C11_OneExchangeUnlessWarm ==
    tokCall.made /\ ~tokCall.threw =>
        LET cold == \/ ~tokCall.before.set
                    \/ tokCall.at >= tokCall.before.expiresAt
                    \/ tokCall.force
        IN  /\ cold => tokCall.requests = 1
            /\ ~cold => /\ tokCall.requests = 0
                        /\ tokCall.token = tokCall.before.token
                        /\ tokenCache = tokCall.before

\* an unforced call some time after the exchange is served from the cache
C11_Witness ==
    /\ tokCall.made /\ ~tokCall.force
    /\ tokCall.before.set /\ tokCall.at > 0 /\ tokCall.at < tokCall.before.expiresAt
    /\ tokCall.requests = 0
    /\ tokCall.token \in TokenValues

\* C12: in both scripts getAccessToken fails, and returns no token, whenever the
\* exchange answers with a non-success status or with a success response that
\* has no access_token.
C12_FaultyExchangeThrows ==
    tokCall.made /\ tokCall.requests = 1 /\ TokenFault(tokCall.resp) =>
        /\ tokCall.threw
        /\ tokCall.token = Undefined
        /\ tokenCache = tokCall.before

\* C13: a failed token exchange is fatal wherever it happens, also while a delete
\* call obtains or refreshes its token: the step that handles it ends the run
\* with a non-zero exit code and issues no further request.
C13_AuthErrorIsFatal ==
    [][req.st = "threw" =>
        /\ pc' = "exit"
        /\ exitCode' # 0
        /\ req'.st = "idle"
        /\ netCalls' = netCalls]_vars

\* the run was ended by a page fetch that failed
PageFetchFailed == runError = "PageFetchError"

\* C14: when a page fetch ends with a non-2xx response after its retries, or with
\* a body that does not parse, the enumeration raises: the run ends with a
\* non-zero exit code, and no page fetch or delete follows, also for the users
\* of the organisation that were not processed yet.
C14_PageFailureAbortsRun ==
    [][\/ InEnumeration /\ req.st = "returned" /\ ~Ok(req.status)
       \/ PageFetchFailed'
       => /\ PageFetchFailed'
          /\ pc' = "exit"
          /\ exitCode' # 0
          /\ req'.st = "idle"
          /\ netCalls' = netCalls
          /\ outcomes' = outcomes]_vars

\* the identities of the second of two organisation users could not be listed
\* after the first user's identity was deleted
C14_Witness ==
    /\ flow = "org" /\ PageFetchFailed
    /\ Len(orgUsers.users) = 2 /\ orgUsers.index = 2
    /\ Len(outcomes) = 1
    /\ pc = "exit" /\ exitCode = 1

\* the organisation run went through main to its last log line
OrgRunCompleted == flow = "org" /\ pc = "exit" /\ runError = "none"

\* C15: when an organisation run completes, usersProcessed is the number of
\* organisation users collected, identitiesProcessed / identitiesDeleted /
\* identitiesFailed are the sums of the per-user results (the delete calls made,
\* those that succeeded, those that failed), and
\* identitiesProcessed = identitiesDeleted + identitiesFailed.
C15_TotalsAreSums ==
    OrgRunCompleted =>
        /\ totals.usersProcessed = Len(orgUsers.users)
        /\ totals.identitiesProcessed = Len(outcomes)
        /\ totals.identitiesDeleted = Cardinality({i \in DOMAIN outcomes : outcomes[i][2]})
        /\ totals.identitiesFailed = Cardinality({i \in DOMAIN outcomes : ~outcomes[i][2]})
        /\ totals.identitiesProcessed = totals.identitiesDeleted + totals.identitiesFailed

\* two users with one identity each, no failure: 2, 2, 2, 0 and exit code 0
C15_Witness ==
    /\ OrgRunCompleted
    /\ totals = [usersProcessed |-> 2, identitiesProcessed |-> 2,
                 identitiesDeleted |-> 2, identitiesFailed |-> 0]
    /\ exitCode = 0

\* C16: the organisation script runs only when
\* KINDE_CONFIRM_DELETE_ORG_IDENTITIES is "true"; with that variable absent it
\* makes no network call, whatever KINDE_CONFIRM_DELETE_ALL is.
C16_OrgFlagGuardsOrgScript ==
    flow = "org" /\ env.KINDE_CONFIRM_DELETE_ORG_IDENTITIES = Undefined
        => netCalls = 0 /\ req.st = "idle"

\* every response of the request in progress after the first is a 429 or a 5xx
LaterAllRetryable == \A i \in 2..Len(reqLog) : Retryable(reqLog[i])

\* C17: the 401 refresh-and-retry does not use up the backoff budget: a request
\* whose first response is 401 and whose later responses are all 429 or 5xx makes
\* MAX_RETRIES backoff retries after the re-authenticated attempt, that is
\* MAX_RETRIES + 2 HTTP attempts, before its last response is returned.
C17_RefreshKeepsRetryBudget ==
    /\ req.st = "returned"
    /\ Len(reqLog) >= 2 /\ reqLog[1] = 401
    /\ LaterAllRetryable
    => Len(reqLog) = MAX_RETRIES + 2

\* the position of the first 401 when only 429/5xx responses came before it, else 0
First401AfterBackoff ==
    IF /\ Has401
       /\ First401 > 1
       /\ \A i \in 1..(First401 - 1) : Retryable(reqLog[i])
    THEN First401 ELSE 0

\* C18: a 401 on any attempt, when no refresh was made yet for the request,
\* triggers one forced refresh and a re-issue, also after 429/5xx backoff
\* retries: the 401 is never the response returned to the caller.
C18_401AfterBackoffRefreshes ==
    req.st = "returned" /\ First401AfterBackoff > 0 =>
        /\ req.forced = 1
        /\ Len(reqLog) > First401AfterBackoff

\* a wait was computed for a response without Retry-After header or with one
\* that gives a number of seconds
WaitOnPlainHint == wait.applied /\ wait.header.kind \in {"absent", "seconds"}

\* the Retry-After hint in milliseconds, 0 without header
RetryAfterHintMs == IF wait.header.kind = "absent" THEN 0 ELSE wait.header.value * 1000

\* C19 as stated: the sleep before a retry at attempt index a is d + j with
\* d = min(max(retryAfterHintMs, BASE_DELAY_MS * 2^a), 15000) and 0 <= j < 250,
\* so it is never below the exponential backoff and never above 15000 + 249.
C19_WaitIsCappedMaximum ==
    WaitOnPlainHint =>
        /\ wait.ms = Min(Max(RetryAfterHintMs, BASE_DELAY_MS * 2 ^ wait.attempt),
                         MaxBackoffMs) + wait.jitter
        /\ wait.jitter >= 0 /\ wait.jitter < JitterRange

\* C19, amended: the sleep is d + j with 0 <= j < 250, where d is the
\* Retry-After hint in milliseconds when the header gives a number of seconds,
\* and min(BASE_DELAY_MS * 2^a, 15000) when there is no header: the hint
\* replaces the backoff and is not capped.
C19_HintReplacesBackoff ==
    WaitOnPlainHint =>
        /\ wait.ms = (IF wait.header.kind = "absent"
                      THEN Min(BASE_DELAY_MS * 2 ^ wait.attempt, MaxBackoffMs)
                      ELSE RetryAfterHintMs) + wait.jitter
        /\ wait.jitter >= 0 /\ wait.jitter < JitterRange

\* Retry-After: 20 makes the script sleep longer than 15000 + 249 ms
C19_Witness ==
    /\ WaitOnPlainHint
    /\ wait.header = [kind |-> "seconds", value |-> 20]
    /\ wait.ms > MaxBackoffMs + JitterRange - 1

\* a status that is neither 2xx nor 401, 429 or 5xx
Terminal(status) == ~Ok(status) /\ status # 401 /\ ~Retryable(status)

\* the request in progress has just received a response with a terminal status
GotTerminal ==
    /\ Len(reqLog') = Len(reqLog) + 1
    /\ Terminal(reqLog'[Len(reqLog')])

\* C20: a response whose status is not 2xx and not 401, 429 or >= 500 (404 here)
\* is returned to the caller at once: no sleep, no token refresh, no further
\* HTTP attempt.
C20_TerminalStatusReturnedAtOnce ==
    [][/\ GotTerminal =>
            /\ req'.st = "returned"
            /\ req'.status = reqLog'[Len(reqLog')]
            /\ req'.attempt = req.attempt
            /\ req'.forced = req.forced
            /\ req'.refreshedAfter401 = req.refreshedAfter401
            /\ now' = now
       /\ req.st = "returned" => netCalls' = netCalls /\ tokenCache' = tokenCache]_vars

\* a delete answered 404 on its first attempt
C20_Witness ==
    /\ req.kind \in {"deleteUser", "deleteIdentity"}
    /\ req.st = "returned" /\ req.status = 404
    /\ reqLog = <<404>> /\ req.forced = 0 /\ req.attempt = 0

\* a page fetch of the enumeration in progress that has not been consumed yet
PendingFetch ==
    IF InEnumeration /\ req.st # "idle" /\ ~hist.done THEN <<req.arg>> ELSE <<>>

\* the continuation values (next_token / starting_after) of the page fetches
\* issued so far in the enumeration that hist describes, in order
SentValues == [i \in DOMAIN hist.pages |-> hist.pages[i].sent] \o PendingFetch

\* C21 as stated: within one enumeration every continuation value sent differs
\* from every value sent earlier in that enumeration.
C21_NoContinuationSentTwice ==
    \A j \in DOMAIN SentValues : \A i \in 1..(j - 1) : SentValues[i] # SentValues[j]

\* C21, amended: within one enumeration every continuation value sent differs
\* from the value sent by the fetch just before it.
C21_ContinuationDiffersFromPrevious ==
    \A j \in DOMAIN SentValues : j > 1 => SentValues[j - 1] # SentValues[j]

\* pages with next_token A, B, A: the fourth fetch repeats the token of the second
C21_Witness ==
    /\ hist.kind = "orgUsers" /\ ~hist.done
    /\ Len(SentValues) = 4
    /\ SentValues[4] = SentValues[2]
    /\ SentValues[4] # SentValues[3]

\* C22: fed the same page responses, collectAllUsers and collectOrganizationUsers
\* issue the same number of page fetches with the same next_token arguments, end
\* at the same page and return the same items, also when a page is empty but
\* carries a next_token.
C22_OpaquePaginatorsAgree ==
    replay.users.ran /\ replay.orgUsers.ran =>
        /\ replay.users.sent = replay.orgUsers.sent
        /\ replay.users.all = replay.orgUsers.all
        /\ replay.users.done = replay.orgUsers.done

\* both paginators stopped at an empty second page that carried a fresh next_token
C22_Witness ==
    /\ replay.users.ran /\ replay.orgUsers.ran
    /\ Len(replay.responses) = 3
    /\ replay.responses[1] = [users |-> <<"a", "b">>, next_token |-> "A"]
    /\ replay.responses[2] = [users |-> <<>>, next_token |-> "B"]
    /\ replay.users.done /\ replay.orgUsers.done
    /\ replay.users.sent = <<Undefined, "A">>
    /\ replay.orgUsers.all = <<"a", "b">>

\* what the claim requires of an identities page for the enumeration to go on
MustContinue(p) ==
    /\ Len(p.items) > 0
    /\ p.has_more
    /\ Truthy(LastId(p.items))
    /\ LastId(p.items) # p.sent

\* C23: after an identities page the paginator fetches again if and only if the
\* page is non-empty, has_more is true, the id of its last item is non-empty and
\* differs from the starting_after the page was fetched with; the next fetch then
\* uses the id of that last item as starting_after.
C23_IdentityPaginationRule ==
    hist.kind = "identities" =>
        \A j \in DOMAIN hist.pages :
            LET p == hist.pages[j] IN
            /\ MustContinue(p) <=> ~LastPage(j)
            /\ j < Len(hist.pages) => hist.pages[j + 1].sent = LastId(p.items)
            /\ j = Len(hist.pages) /\ ~hist.done /\ req.st # "idle" =>
                    /\ req.kind = "getUserIdentitiesPage"
                    /\ req.arg = LastId(p.items)

\* the second page ends with the id it was fetched after: the enumeration stops
\* although has_more is true
C23_Witness ==
    /\ hist.kind = "identities" /\ hist.done
    /\ Len(hist.pages) = 2
    /\ MustContinue(hist.pages[1])
    /\ hist.pages[2].sent = "b"
    /\ hist.pages[2].items = <<"b">> /\ hist.pages[2].has_more

DeleteKinds == {"deleteUser", "deleteIdentity"}

\* C24: no delete is issued while the enumeration that feeds it is in progress.
\* Every user page fetch (global) and every organisation-user page fetch comes
\* before the first delete, the latter also before the first identities fetch;
\* an identities fetch that follows a delete belongs to the next user; and a run
\* that is still enumerating users, or failed doing so, has issued no delete.
C24_EnumerationBeforeDeletion ==
    [][/\ req'.kind = "getUsersPage" =>
            req.kind \in {"none", "getUsersPage"} /\ outcomes' = <<>>
       /\ req'.kind = "getOrganizationUsersPage" =>
            /\ req.kind \in {"none", "getOrganizationUsersPage"}
            /\ outcomes' = <<>>
            /\ orgUsers'.index = 0
       /\ req'.kind = "getUserIdentitiesPage" /\ req.kind \in DeleteKinds =>
            orgUsers'.index = orgUsers.index + 1
       /\ req'.kind \in DeleteKinds /\ req.kind \notin DeleteKinds =>
            /\ hist'.done
            /\ pc \in {"collectAllUsers", "collectAllUserIdentities"}
       /\ pc \in {"collectAllUsers", "collectOrganizationUsers"} => outcomes' = <<>>]_vars

\* the identities of the second user are being fetched after a delete for the first
C24_Witness ==
    /\ flow = "org"
    /\ req.kind = "getUserIdentitiesPage" /\ req.st = "pending"
    /\ orgUsers.index = 2
    /\ Len(outcomes) >= 1

\* C25: a failed token exchange leaves the token cache as it was: after
\* getAccessToken raises, the cached token and expiresAt are those from before
\* the call, also when the call was the forced refresh that follows a 401.
C25_FailedExchangeKeepsCache ==
    tokCall.made /\ tokCall.threw =>
        /\ tokenCache.set = tokCall.before.set
        /\ tokenCache.token = tokCall.before.token
        /\ tokenCache.expiresAt = tokCall.before.expiresAt

\* a forced refresh failed while a token was cached; the token is still there
C25_Witness ==
    /\ tokCall.made /\ tokCall.threw /\ tokCall.force
    /\ tokCall.before.set
    /\ tokenCache.set /\ tokenCache.token \in TokenValues
    /\ tokCall.at < tokenCache.expiresAt
====
